---------------------------- MODULE Spec2Model ----------------------------
(***************************************************************************)
(* Model of the dimensional-analysis library SciQ                          *)
(* (src/include/ScientificQuantities.hpp).                                 *)
(*                                                                         *)
(* A Quantity<L,M,T,EC,TT,AS,LI> is a pair: the seven std::ratio template  *)
(* arguments (its type) and one stored double (its value).  An expression  *)
(* over quantities either is ill-formed (the compiler rejects it, C++11)   *)
(* or yields a quantity, a plain double or a bool.  The model runs the     *)
(* programs that evaluate an expression over two input quantities of the   *)
(* built-in types, may keep the resulting quantity in a variable x, and    *)
(* go on with expressions over x; each step records the operands and the   *)
(* outcome of one expression.  A program may also write a quantity to a    *)
(* stream (operator<<) or pass a string to from_string; text holds the     *)
(* characters written or passed.  It may use a unit constant or a          *)
(* user-defined literal, apply += or -= to x, and run q += a on one        *)
(* quantity from two threads.                                              *)
(*                                                                         *)
(* double is modelled as a binary floating-point format with Precision     *)
(* mantissa bits, exponents -ExpRange..ExpRange, gradual underflow,        *)
(* round-to-nearest-even, +inf, -inf and NaN.  The sign of zero is not     *)
(* modelled, and std::sqrt and std::pow are taken to be correctly rounded. *)
(* The texts written and read, the unit constants and the literals carry   *)
(* the numbers of the source as exact rationals.                           *)
(***************************************************************************)
EXTENDS Integers, Sequences, FiniteSets, TLC

(***************************************************************************)
(* Bounds of the model.                                                    *)
(***************************************************************************)
Precision == 2
ExpRange == 1
MaxPow == 2
MaxDepth == 1

NUM_BASE_UNITS == 7

(***************************************************************************)
(* Integer helpers.                                                        *)
(***************************************************************************)
Abs(i) == IF i < 0 THEN -i ELSE i

Sign(i) == IF i < 0 THEN -1 ELSE IF i = 0 THEN 0 ELSE 1

RECURSIVE GCD(_, _)
GCD(a, b) == IF b = 0 THEN a ELSE GCD(b, a % b)

RECURSIVE IPow(_, _)
IPow(b, e) == IF e = 0 THEN 1 ELSE b * IPow(b, e - 1)

(***************************************************************************)
(* std::ratio<N,D>: the pair <<N, D>> is the template arguments as         *)
(* written; num and den are the members, reduced to lowest terms with the  *)
(* sign carried by num.                                                    *)
(***************************************************************************)
RatioNum(r) == Sign(r[1]) * Sign(r[2]) * (Abs(r[1]) \div GCD(Abs(r[1]), Abs(r[2])))

RatioDen(r) == Abs(r[2]) \div GCD(Abs(r[1]), Abs(r[2]))

Ratio(N, D) == <<RatioNum(<<N, D>>), RatioDen(<<N, D>>)>>

\* a faulty ratio_add that leaves the sum as the cross-multiplication gives it
ratio_add_Unreduced(r1, r2) ==
    <<RatioNum(r1) * RatioDen(r2) + RatioNum(r2) * RatioDen(r1),
      RatioDen(r1) * RatioDen(r2)>>

ratio_add(r1, r2) ==
    Ratio(RatioNum(r1) * RatioDen(r2) + RatioNum(r2) * RatioDen(r1),
          RatioDen(r1) * RatioDen(r2))

\* a faulty ratio_subtract that subtracts the first operand from the second
ratio_subtract_Reversed(r1, r2) ==
    Ratio(RatioNum(r2) * RatioDen(r1) - RatioNum(r1) * RatioDen(r2),
          RatioDen(r1) * RatioDen(r2))

ratio_subtract(r1, r2) ==
    Ratio(RatioNum(r1) * RatioDen(r2) - RatioNum(r2) * RatioDen(r1),
          RatioDen(r1) * RatioDen(r2))

ratio_multiply(r1, r2) ==
    Ratio(RatioNum(r1) * RatioNum(r2), RatioDen(r1) * RatioDen(r2))

ratio_divide(r1, r2) ==
    Ratio(RatioNum(r1) * RatioDen(r2), RatioDen(r1) * RatioNum(r2))

ratio_equal(r1, r2) ==
    RatioNum(r1) = RatioNum(r2) /\ RatioDen(r1) = RatioDen(r2)

(***************************************************************************)
(* Exact rationals <<n, d>> with d > 0, used to define the rounding of     *)
(* double arithmetic.                                                      *)
(***************************************************************************)
RatLess(p, q) == p[1] * q[2] < q[1] * p[2]

RatLeq(p, q) == p[1] * q[2] <= q[1] * p[2]

RatNeg(p) == <<-p[1], p[2]>>

RatAbs(p) == <<Abs(p[1]), p[2]>>

RatAdd(p, q) == Ratio(p[1] * q[2] + q[1] * p[2], p[2] * q[2])

RatSub(p, q) == Ratio(p[1] * q[2] - q[1] * p[2], p[2] * q[2])

RatMul(p, q) == Ratio(p[1] * q[1], p[2] * q[2])

RatDiv(p, q) == Ratio(p[1] * q[2], p[2] * q[1])

RatPow(p, e) ==
    IF e >= 0 THEN Ratio(IPow(p[1], e), IPow(p[2], e))
    ELSE Ratio(IPow(p[2], -e), IPow(p[1], -e))

(***************************************************************************)
(* The floating-point format.  A finite value is m * 2^e with              *)
(* 0 <= m < 2^Precision and e in -ExpRange..ExpRange.                      *)
(***************************************************************************)
Scaled(m, e) == IF e >= 0 THEN Ratio(m * IPow(2, e), 1) ELSE Ratio(m, IPow(2, -e))

Mantissas == 0 .. (IPow(2, Precision) - 1)

Exponents == (-ExpRange) .. ExpRange

PositiveReps == {Scaled(m, e) : m \in Mantissas \ {0}, e \in Exponents}

FiniteReps == PositiveReps \cup {RatNeg(p) : p \in PositiveReps} \cup {<<0, 1>>}

MaxFinite == Scaled(IPow(2, Precision) - 1, ExpRange)

MinNormal == Scaled(IPow(2, Precision - 1), -ExpRange)

\* the first magnitude that rounds to infinity: MaxFinite plus half an ulp
OverflowThreshold == RatAdd(MaxFinite, Scaled(1, ExpRange - 1))

\* the representable magnitudes whose mantissa, in canonical form, is even
EvenReps ==
    {p \in FiniteReps :
        \E m \in Mantissas, e \in Exponents :
            /\ Scaled(m, e) = RatAbs(p)
            /\ (m >= IPow(2, Precision - 1) \/ e = -ExpRange)
            /\ m % 2 = 0}

\* the finite values in increasing order
RepSeq ==
    [i \in 1 .. Cardinality(FiniteReps) |->
        CHOOSE r \in FiniteReps :
            Cardinality({s \in FiniteReps : RatLess(s, r)}) = i - 1]

Fin(p) == [cls |-> "fin", num |-> p[1], den |-> p[2]]

Inf(s) == [cls |-> "inf", num |-> s, den |-> 1]

NaN == [cls |-> "nan", num |-> 0, den |-> 1]

Rat(x) == <<x.num, x.den>>

IsNaN(x) == x.cls = "nan"

IsInf(x) == x.cls = "inf"

IsFinite(x) == x.cls = "fin"

IsZero(x) == x.cls = "fin" /\ x.num = 0

SignOf(x) == Sign(x.num)

Zero == Fin(<<0, 1>>)

One == Fin(<<1, 1>>)

Doubles == {Fin(p) : p \in FiniteReps} \cup {Inf(1), Inf(-1), NaN}

FiniteDoubles == {Fin(p) : p \in FiniteReps}

\* round-to-nearest, ties to even, overflow to infinity
Round(q) ==
    IF RatLeq(OverflowThreshold, RatAbs(q)) THEN Inf(Sign(q[1]))
    ELSE LET below == Cardinality({i \in DOMAIN RepSeq : RatLeq(RepSeq[i], q)})
             lo == RepSeq[IF below = 0 THEN 1 ELSE below]
             hi == RepSeq[IF below = Len(RepSeq) THEN below ELSE below + 1]
             dl == RatAbs(RatSub(q, lo))
             dh == RatAbs(RatSub(hi, q))
         IN  IF RatLess(dl, dh) THEN Fin(lo)
             ELSE IF RatLess(dh, dl) THEN Fin(hi)
             ELSE IF lo \in EvenReps THEN Fin(lo) ELSE Fin(hi)

(***************************************************************************)
(* Arithmetic on double (IEEE 754 default rounding, no traps).             *)
(***************************************************************************)
FNeg(x) == IF IsNaN(x) THEN NaN ELSE [x EXCEPT !.num = -x.num]

FAdd(x, y) ==
    IF IsNaN(x) \/ IsNaN(y) THEN NaN
    ELSE IF IsInf(x) /\ IsInf(y) THEN (IF x.num = y.num THEN x ELSE NaN)
    ELSE IF IsInf(x) THEN x
    ELSE IF IsInf(y) THEN y
    ELSE Round(RatAdd(Rat(x), Rat(y)))

FSub(x, y) == FAdd(x, FNeg(y))

FMul(x, y) ==
    IF IsNaN(x) \/ IsNaN(y) THEN NaN
    ELSE IF IsInf(x) \/ IsInf(y)
         THEN (IF IsZero(x) \/ IsZero(y) THEN NaN ELSE Inf(SignOf(x) * SignOf(y)))
    ELSE Round(RatMul(Rat(x), Rat(y)))

FDiv(x, y) ==
    IF IsNaN(x) \/ IsNaN(y) THEN NaN
    ELSE IF IsInf(x) THEN (IF IsInf(y) THEN NaN
                           ELSE Inf(x.num * (IF IsZero(y) THEN 1 ELSE SignOf(y))))
    ELSE IF IsInf(y) THEN Zero
    ELSE IF IsZero(y) THEN (IF IsZero(x) THEN NaN ELSE Inf(SignOf(x)))
    ELSE Round(RatDiv(Rat(x), Rat(y)))

\* std::sqrt: correctly rounded; NaN for a negative argument
FSqrt(x) ==
    IF IsNaN(x) \/ SignOf(x) < 0 THEN NaN
    ELSE IF IsInf(x) \/ IsZero(x) THEN x
    ELSE LET q == Rat(x)
             below == Cardinality({i \in DOMAIN RepSeq :
                          RepSeq[i][1] >= 0 /\ RatLeq(RatMul(RepSeq[i], RepSeq[i]), q)})
             first == Cardinality({i \in DOMAIN RepSeq : RepSeq[i][1] < 0})
             lo == RepSeq[first + below]
             hi == RepSeq[IF first + below = Len(RepSeq) THEN first + below
                          ELSE first + below + 1]
             mid == RatDiv(RatAdd(lo, hi), <<2, 1>>)
         IN  IF RatMul(lo, lo) = q THEN Fin(lo)
             ELSE IF RatLess(q, RatMul(mid, mid)) THEN Fin(lo)
             ELSE Fin(hi)

\* std::pow(x, (double)n) for an integer n
FPow(x, n) ==
    IF n = 0 THEN One
    ELSE IF IsNaN(x) THEN NaN
    ELSE IF IsInf(x) THEN (IF n < 0 THEN Zero
                           ELSE Inf(IF n % 2 = 0 THEN 1 ELSE x.num))
    ELSE IF IsZero(x) THEN (IF n < 0 THEN Inf(1) ELSE Zero)
    ELSE Round(RatPow(Rat(x), n))

\* the comparison operators of double: every ordered comparison with NaN is false
FEq(x, y) == ~IsNaN(x) /\ ~IsNaN(y) /\ x = y

FLt(x, y) ==
    /\ ~IsNaN(x) /\ ~IsNaN(y)
    /\ IF IsInf(x) THEN x.num < 0 /\ x # y
       ELSE IF IsInf(y) THEN y.num > 0
       ELSE RatLess(Rat(x), Rat(y))


FNe(x, y) == ~FEq(x, y)

FLe(x, y) == FLt(x, y) \/ FEq(x, y)

FGt(x, y) == FLt(y, x)

FGe(x, y) == FLt(y, x) \/ FEq(x, y)

(***************************************************************************)
(* Dimension vectors: the seven std::ratio template arguments of a         *)
(* Quantity, in the order L, M, T, EC, TT, AS, LI.                         *)
(***************************************************************************)
Axes == 1 .. NUM_BASE_UNITS

BaseDim(a) == [i \in Axes |-> IF i = a THEN <<1, 1>> ELSE <<0, 1>>]

Length == BaseDim(1)

Mass == BaseDim(2)

Time == BaseDim(3)

Angle == [i \in Axes |-> <<0, 1>>]

\* two Quantity instantiations are the same type iff their template
\* arguments are the same types
SameType(d1, d2) == d1 = d2

\* a faulty static_assert condition that compares numerators only
DimsRatioEqual_NumeratorsOnly(d1, d2) ==
    \A i \in Axes : RatioNum(d1[i]) = RatioNum(d2[i])

\* the condition of the static_assert in the comparison operators
DimsRatioEqual(d1, d2) == \A i \in Axes : ratio_equal(d1[i], d2[i])

(***************************************************************************)
(* Quantities and the outcome of an expression.                            *)
(***************************************************************************)
Quantity(d, v) == [dim |-> d, value |-> v]

QuantityRes(d, v) == [kind |-> "quantity", dim |-> d, value |-> v, truth |-> FALSE]

NumberRes(v) == [kind |-> "number", dim |-> Angle, value |-> v, truth |-> FALSE]

BoolRes(b) == [kind |-> "bool", dim |-> Angle, value |-> Zero, truth |-> b]

Rejected == [kind |-> "rejected", dim |-> Angle, value |-> Zero, truth |-> FALSE]

NoRes == [kind |-> "none", dim |-> Angle, value |-> Zero, truth |-> FALSE]

getValue(q) == q.value

\* Quantity::operator double(): the implicit conversion to a plain number
operator_double(q) == q.value

operator_plus_assign(q, r) == Quantity(q.dim, FAdd(q.value, r.value))

\* a faulty operator-= that adds
operator_minus_assign_Adds(q, r) == Quantity(q.dim, FAdd(q.value, r.value))

operator_minus_assign(q, r) == Quantity(q.dim, FSub(q.value, r.value))

\* a + b: the template is viable only for operands of one type; otherwise
\* the built-in operator on double applies through operator double()
operator_plus(a, b) ==
    IF SameType(a.dim, b.dim)
    THEN LET s == operator_plus_assign(a, b) IN QuantityRes(s.dim, s.value)
    ELSE NumberRes(FAdd(operator_double(a), operator_double(b)))

operator_minus(a, b) ==
    IF SameType(a.dim, b.dim)
    THEN LET s == operator_minus_assign(a, b) IN QuantityRes(s.dim, s.value)
    ELSE NumberRes(FSub(operator_double(a), operator_double(b)))

\* a faulty operator* that subtracts the exponents
operator_times_Subtracts(a, b) ==
    QuantityRes([i \in Axes |-> ratio_subtract(a.dim[i], b.dim[i])],
                FMul(getValue(a), getValue(b)))

operator_times(a, b) ==
    QuantityRes([i \in Axes |-> ratio_add(a.dim[i], b.dim[i])],
                FMul(getValue(a), getValue(b)))

\* a faulty operator/ that adds the exponents
operator_divide_Adds(a, b) ==
    QuantityRes([i \in Axes |-> ratio_add(a.dim[i], b.dim[i])],
                FDiv(getValue(a), getValue(b)))

operator_divide(a, b) ==
    QuantityRes([i \in Axes |-> ratio_subtract(a.dim[i], b.dim[i])],
                FDiv(getValue(a), getValue(b)))

operator_eq(a, b) ==
    IF DimsRatioEqual(a.dim, b.dim) THEN BoolRes(FEq(getValue(a), getValue(b)))
    ELSE Rejected

operator_ne(a, b) ==
    IF DimsRatioEqual(a.dim, b.dim) THEN BoolRes(FNe(getValue(a), getValue(b)))
    ELSE Rejected

\* a faulty operator<= that compares strictly
operator_le_Strict(a, b) ==
    IF DimsRatioEqual(a.dim, b.dim) THEN BoolRes(FLt(getValue(a), getValue(b)))
    ELSE Rejected

operator_le(a, b) ==
    IF DimsRatioEqual(a.dim, b.dim) THEN BoolRes(FLe(getValue(a), getValue(b)))
    ELSE Rejected

operator_ge(a, b) ==
    IF DimsRatioEqual(a.dim, b.dim) THEN BoolRes(FGe(getValue(a), getValue(b)))
    ELSE Rejected

operator_lt(a, b) ==
    IF DimsRatioEqual(a.dim, b.dim) THEN BoolRes(FLt(getValue(a), getValue(b)))
    ELSE Rejected

operator_gt(a, b) ==
    IF DimsRatioEqual(a.dim, b.dim) THEN BoolRes(FGt(getValue(a), getValue(b)))
    ELSE Rejected

\* a faulty in() that multiplies by the unit
in_Multiplies(a, b) ==
    IF SameType(a.dim, b.dim) THEN NumberRes(FMul(a.value, b.value))
    ELSE Rejected

\* a.in(b): the parameter is a reference to a's own type, and no implicit
\* conversion leads to it (the constructor from double is explicit)
in(a, b) ==
    IF SameType(a.dim, b.dim) THEN NumberRes(FDiv(a.value, b.value))
    ELSE Rejected

\* a * s, s * a, a / s and s / a for a plain number s
scalar_times_right(a, s) == QuantityRes(a.dim, FMul(getValue(a), s))

\* a faulty operator*(Type, Quantity) that returns a dimensionless quantity
scalar_times_left_Dimensionless(s, a) == QuantityRes(Angle, FMul(s, getValue(a)))

scalar_times_left(s, a) == QuantityRes(a.dim, FMul(s, getValue(a)))

scalar_divide(a, s) == QuantityRes(a.dim, FDiv(getValue(a), s))

scalar_over(s, a) ==
    QuantityRes([i \in Axes |-> <<-RatioNum(a.dim[i]), 1>>], FDiv(s, getValue(a)))

\* a faulty sqrt that leaves the exponents as they are
sqrt_Unhalved(a) == QuantityRes(a.dim, FSqrt(getValue(a)))

sqrt(a) ==
    QuantityRes([i \in Axes |-> ratio_divide(a.dim[i], <<2, 1>>)], FSqrt(getValue(a)))

\* a faulty pow that adds the power to the exponents
pow_Adds(power, a) ==
    QuantityRes([i \in Axes |-> ratio_add(a.dim[i], <<power, 1>>)],
                FPow(getValue(a), power))

pow(power, a) ==
    QuantityRes([i \in Axes |-> ratio_multiply(a.dim[i], <<power, 1>>)],
                FPow(getValue(a), power))

(***************************************************************************)
(* Named units used by the properties.                                     *)
(***************************************************************************)
meter == Quantity(Length, One)

meter2 ==
    LET m2 == operator_times(meter, meter) IN Quantity(m2.dim, m2.value)

(***************************************************************************)
(* Text.  A std::string is the sequence of its characters.  The names of   *)
(* the fundamental units are the FundamentalUnit specialisations, each     *)
(* given with the exponents of the Quantity alias it specialises.          *)
(***************************************************************************)
\* a faulty type that keeps the exponent of length only
Dim_LengthOnly(l, m, t, ec, tt, as, li) ==
    <<<<l, 1>>, <<0, 1>>, <<0, 1>>, <<0, 1>>, <<0, 1>>, <<0, 1>>, <<0, 1>>>>

\* the Quantity type with the integer exponents l, m, t, ec, tt, as, li
Dim(l, m, t, ec, tt, as, li) ==
    <<<<l, 1>>, <<m, 1>>, <<t, 1>>, <<ec, 1>>, <<tt, 1>>, <<as, 1>>, <<li, 1>>>>

FundamentalUnit == <<
    [type |-> "Length", dim |-> Dim(1, 0, 0, 0, 0, 0, 0), Name |-> <<"m">>],
    [type |-> "Mass", dim |-> Dim(0, 1, 0, 0, 0, 0, 0), Name |-> <<"k", "g">>],
    [type |-> "Time", dim |-> Dim(0, 0, 1, 0, 0, 0, 0), Name |-> <<"s">>],
    [type |-> "Current", dim |-> Dim(0, 0, 0, 1, 0, 0, 0), Name |-> <<"A">>],
    [type |-> "Temperature", dim |-> Dim(0, 0, 0, 0, 1, 0, 0), Name |-> <<"K">>],
    [type |-> "Substance", dim |-> Dim(0, 0, 0, 0, 0, 1, 0), Name |-> <<"m", "o", "l">>],
    [type |-> "Luminous", dim |-> Dim(0, 0, 0, 0, 0, 0, 1), Name |-> <<"c", "d">>],
    [type |-> "Angle", dim |-> Dim(0, 0, 0, 0, 0, 0, 0), Name |-> <<"r", "a", "d">>],
    [type |-> "Frequency", dim |-> Dim(0, 0, -1, 0, 0, 0, 0), Name |-> <<"H", "z">>],
    [type |-> "Force", dim |-> Dim(1, 1, -2, 0, 0, 0, 0), Name |-> <<"N">>],
    [type |-> "Pressure", dim |-> Dim(-1, 1, -2, 0, 0, 0, 0), Name |-> <<"P", "a">>],
    [type |-> "Energy", dim |-> Dim(2, 1, -2, 0, 0, 0, 0), Name |-> <<"J">>],
    [type |-> "Power", dim |-> Dim(2, 1, -3, 0, 0, 0, 0), Name |-> <<"W">>],
    [type |-> "Charge", dim |-> Dim(0, 0, 1, 1, 0, 0, 0), Name |-> <<"C">>],
    [type |-> "Voltage", dim |-> Dim(2, 1, -3, -1, 0, 0, 0), Name |-> <<"V">>],
    [type |-> "Capacitance", dim |-> Dim(-2, -1, 4, 2, 0, 0, 0), Name |-> <<"F">>],
    [type |-> "Resistance", dim |-> Dim(2, 1, -3, -2, 0, 0, 0), Name |-> <<"O", "h", "m">>],
    [type |-> "Conductance", dim |-> Dim(-2, -1, 3, 2, 0, 0, 0), Name |-> <<"S">>],
    [type |-> "MagneticFlux", dim |-> Dim(2, 1, -2, -1, 0, 0, 0), Name |-> <<"W", "b">>],
    [type |-> "MagneticField", dim |-> Dim(0, 1, -2, -1, 0, 0, 0), Name |-> <<"T">>],
    [type |-> "Inductance", dim |-> Dim(2, 1, -2, -2, 0, 0, 0), Name |-> <<"H">>],
    [type |-> "Illuminance", dim |-> Dim(-2, 0, 0, 0, 0, 0, 1), Name |-> <<"l", "x">>],
    [type |-> "AbsorbedDose", dim |-> Dim(2, 0, -2, 0, 0, 0, 0), Name |-> <<"G", "y">>],
    [type |-> "CatalyticActivity", dim |-> Dim(0, 0, -1, 0, 0, 1, 0), Name |-> <<"k", "a", "t">>],
    [type |-> "DynamicViscosity", dim |-> Dim(-1, 1, -1, 0, 0, 0, 0), Name |-> <<"P", "a", "*", "s">>],
    [type |-> "AngularAcceleration", dim |-> Dim(0, 0, -2, 0, 0, 0, 0), Name |-> <<"r", "a", "d", "/", "s", "^", "2">>],
    [type |-> "Irradiance", dim |-> Dim(0, 1, -3, 0, 0, 0, 0), Name |-> <<"W", "/", "m", "^", "2">>],
    [type |-> "Entropy", dim |-> Dim(2, 1, -2, 0, -1, 0, 0), Name |-> <<"J", "/", "K">>],
    [type |-> "SpecificEntropy", dim |-> Dim(2, 0, -2, 0, -1, 0, 0), Name |-> <<"J", "/", "(", "k", "g", "*", "K", ")">>],
    [type |-> "ThermalConductivity", dim |-> Dim(1, 1, -3, 0, -1, 0, 0), Name |-> <<"W", "/", "(", "m", "*", "K", ")">>],
    [type |-> "ElectricFieldStrength", dim |-> Dim(1, 1, -3, -1, 0, 0, 0), Name |-> <<"V", "/", "m">>],
    [type |-> "ElectricChargeDensity", dim |-> Dim(-3, 0, 1, 1, 0, 0, 0), Name |-> <<"C", "/", "m", "^", "3">>],
    [type |-> "ElectricFluxDensity", dim |-> Dim(-2, 0, 1, 1, 0, 0, 0), Name |-> <<"C", "/", "m", "^", "2">>],
    [type |-> "Permittivity", dim |-> Dim(-3, -1, 4, 2, 0, 0, 0), Name |-> <<"F", "/", "m">>],
    [type |-> "Permeability", dim |-> Dim(1, 1, -2, -2, 0, 0, 0), Name |-> <<"H", "/", "m">>],
    [type |-> "MolarEnergy", dim |-> Dim(2, 1, -2, 0, 0, -1, 0), Name |-> <<"J", "/", "m", "o", "l">>],
    [type |-> "MolarEntropy", dim |-> Dim(2, 1, -2, 0, -1, -1, 0), Name |-> <<"J", "/", "(", "m", "o", "l", "*", "K", ")">>],
    [type |-> "Exposure", dim |-> Dim(0, -1, 1, 1, 0, 0, 0), Name |-> <<"C", "/", "k", "g">>],
    [type |-> "AbsorbedDoseRate", dim |-> Dim(2, 0, -3, 0, 0, 0, 0), Name |-> <<"G", "y", "/", "s">>],
    [type |-> "CatalyticConcentration", dim |-> Dim(-3, 0, -1, 0, 0, 1, 0), Name |-> <<"k", "a", "t", "/", "m", "^", "3">>],
    [type |-> "Speed", dim |-> Dim(1, 0, -1, 0, 0, 0, 0), Name |-> <<"m", "/", "s">>],
    [type |-> "Acceleration", dim |-> Dim(1, 0, -2, 0, 0, 0, 0), Name |-> <<"m", "/", "s", "^", "2">>] >>

\* FundamentalUnit<type>::Name
NameOf(type) ==
    FundamentalUnit[CHOOSE i \in DOMAIN FundamentalUnit : FundamentalUnit[i].type = type].Name

\* a faulty detection that finds no unit for the type of all-zero exponents
HasFundamentalUnit_NotForZero(d) ==
    d # Dim(0, 0, 0, 0, 0, 0, 0)
        /\ \E i \in DOMAIN FundamentalUnit : FundamentalUnit[i].dim = d

\* HasFundamentalUnit<Quantity<...>>::value: a specialisation exists for the type
HasFundamentalUnit(d) == \E i \in DOMAIN FundamentalUnit : FundamentalUnit[i].dim = d

\* Quantity<...>::FundamentalUnitType::Name
FundamentalUnitName(d) ==
    FundamentalUnit[CHOOSE i \in DOMAIN FundamentalUnit : FundamentalUnit[i].dim = d].Name

NUM_UNITS == 42

\* a faulty list that holds the names of the seven base units only
UNITS_BaseOnly == <<
    NameOf("Length"), NameOf("Mass"), NameOf("Time"), NameOf("Current"),
    NameOf("Temperature"), NameOf("Substance"), NameOf("Luminous") >>

\* the unit names from_string supports
UNITS == <<
    NameOf("Length"), NameOf("Mass"), NameOf("Time"), NameOf("Current"),
    NameOf("Temperature"), NameOf("Substance"), NameOf("Luminous"),
    NameOf("Angle"), NameOf("Frequency"), NameOf("Force"),
    NameOf("Pressure"), NameOf("Energy"), NameOf("Power"), NameOf("Charge"),
    NameOf("Voltage"), NameOf("Capacitance"), NameOf("Resistance"),
    NameOf("Conductance"), NameOf("MagneticFlux"), NameOf("MagneticField"),
    NameOf("Inductance"), NameOf("Illuminance"), NameOf("AbsorbedDose"),
    NameOf("CatalyticActivity"), NameOf("DynamicViscosity"),
    NameOf("AngularAcceleration"), NameOf("Irradiance"), NameOf("Entropy"),
    NameOf("SpecificEntropy"), NameOf("ThermalConductivity"),
    NameOf("ElectricFieldStrength"), NameOf("ElectricChargeDensity"),
    NameOf("ElectricFluxDensity"), NameOf("Permittivity"),
    NameOf("Permeability"), NameOf("MolarEnergy"), NameOf("MolarEntropy"),
    NameOf("Exposure"), NameOf("AbsorbedDoseRate"),
    NameOf("CatalyticConcentration"), NameOf("Speed"),
    NameOf("Acceleration") >>

(***************************************************************************)
(* operator<<(std::ostream&, double) with the stream's default flags: the  *)
(* conversion %g with precision 6.  The sign of zero is not modelled, and  *)
(* the sign of a NaN is not part of its value.                             *)
(***************************************************************************)
StreamPrecision == 6

DigitChars == <<"0", "1", "2", "3", "4", "5", "6", "7", "8", "9">>

RECURSIVE Digits(_)
Digits(i) ==
    IF i < 10 THEN <<DigitChars[i + 1]>>
    ELSE Digits(i \div 10) \o <<DigitChars[(i % 10) + 1]>>

Zeros(c) == [i \in 1 .. c |-> "0"]

RECURSIVE StripZeros(_)
StripZeros(i) == IF i # 0 /\ i % 10 = 0 THEN StripZeros(i \div 10) ELSE i

\* the decimal exponent of a positive rational: 10^X <= q < 10^(X+1)
RECURSIVE DecimalExponent(_, _)
DecimalExponent(q, X) ==
    IF RatLess(q, <<1, 1>>)
    THEN (IF q[1] * IPow(10, -X) >= q[2] THEN X ELSE DecimalExponent(q, X - 1))
    ELSE (IF q[1] < q[2] * IPow(10, X + 1) THEN X ELSE DecimalExponent(q, X + 1))

\* the integer nearest to n / d, ties to even
RoundDiv(i, d) ==
    LET f == i \div d
        r == i % d
    IN  IF 2 * r < d THEN f
        ELSE IF 2 * r > d THEN f + 1
        ELSE IF f % 2 = 0 THEN f ELSE f + 1

\* the text of a positive rational rounded to StreamPrecision significant digits
FormatPositive(q) ==
    LET X0 == DecimalExponent(q, IF RatLess(q, <<1, 1>>) THEN -1 ELSE 0)
        sh == StreamPrecision - 1 - X0
        S0 == IF sh >= 0 THEN RoundDiv(q[1] * IPow(10, sh), q[2])
              ELSE RoundDiv(q[1], q[2] * IPow(10, -sh))
        carry == S0 = IPow(10, StreamPrecision)
        X == IF carry THEN X0 + 1 ELSE X0
        sig == Digits(StripZeros(IF carry THEN 1 ELSE S0))
        nd == Len(sig)
    IN  IF X < -4 \/ X >= StreamPrecision
        THEN (IF nd = 1 THEN sig ELSE <<sig[1], ".">> \o SubSeq(sig, 2, nd))
                \o <<"e", IF X < 0 THEN "-" ELSE "+">>
                \o (IF Abs(X) < 10 THEN <<"0">> ELSE <<>>) \o Digits(Abs(X))
        ELSE IF X < 0 THEN <<"0", ".">> \o Zeros(-X - 1) \o sig
        ELSE IF nd <= X + 1 THEN sig \o Zeros(X + 1 - nd)
        ELSE SubSeq(sig, 1, X + 1) \o <<".">> \o SubSeq(sig, X + 2, nd)

\* the texts the stream can write for a double
FormatDouble(v) ==
    IF IsNaN(v) THEN {<<"n", "a", "n">>, <<"-", "n", "a", "n">>}
    ELSE IF IsInf(v) THEN {(IF v.num < 0 THEN <<"-">> ELSE <<>>) \o <<"i", "n", "f">>}
    ELSE IF IsZero(v) THEN {<<"0">>}
    ELSE {(IF v.num < 0 THEN <<"-">> ELSE <<>>) \o FormatPositive(RatAbs(Rat(v)))}

(***************************************************************************)
(* operator<<(std::ostream&, const Quantity&).  An outcome is the text     *)
(* written to the stream, or "undefined" when the program does not get as  *)
(* far as returning.                                                       *)
(***************************************************************************)
Written(t) == [kind |-> "text", text |-> t]

Undefined == [kind |-> "undefined", text |-> <<>>]

\* operator<<(std::ostream&, int)
FormatInt(i) == (IF i < 0 THEN <<"-">> ELSE <<>>) \o Digits(Abs(i))

\* the overload for a type that has a fundamental unit
operator_out_named(q) ==
    {Written(t \o <<" ">> \o FundamentalUnitName(q.dim)) : t \in FormatDouble(getValue(q))}

\* the array base_units of the generic overload
base_units == <<
    NameOf("Length"), NameOf("Mass"), NameOf("Time"), NameOf("Current"),
    NameOf("Temperature"), NameOf("Substance"), NameOf("Luminous") >>

\* the array exponents of the generic overload, indexed from 0
exponents(d) ==
    [i \in 0 .. (2 * NUM_BASE_UNITS - 1) |->
        IF i % 2 = 0 THEN RatioNum(d[(i \div 2) + 1]) ELSE RatioDen(d[(i \div 2) + 1])]

\* what a read of base_units past its end may find in memory in place of a
\* std::string
StrayStrings == {<<>>} \cup {base_units[j] : j \in DOMAIN base_units}

\* base_units[i], indexed from 0: the element, or any string when i lies
\* past the end of the array
base_units_at(i) ==
    IF i < Len(base_units) THEN {base_units[i + 1]} ELSE StrayStrings

\* the loop of the generic overload from index i on: the texts it can write
RECURSIVE GenericLoop(_, _)
GenericLoop(d, i) ==
    IF i >= 2 * NUM_BASE_UNITS THEN {<<>>}
    ELSE IF exponents(d)[i] = 0 THEN GenericLoop(d, i + 2)
    ELSE {(<<" ">> \o sym
             \o (IF exponents(d)[i] = 1 /\ exponents(d)[i + 1] = 1 THEN <<>>
                 ELSE <<"^">> \o FormatInt(exponents(d)[i]))
             \o (IF exponents(d)[i + 1] # 1
                 THEN <<"/">> \o FormatInt(exponents(d)[i + 1]) ELSE <<>>))
          \o rest : sym \in base_units_at(i), rest \in GenericLoop(d, i + 2)}

\* the loop reads base_units past its end
ReadsPastEnd(d) ==
    \E i \in 0 .. (2 * NUM_BASE_UNITS - 1) :
        i % 2 = 0 /\ exponents(d)[i] # 0 /\ i >= Len(base_units)

\* the overload for a type without a fundamental unit
operator_out_generic(q) ==
    {Written(t \o rest) : t \in FormatDouble(getValue(q)), rest \in GenericLoop(q.dim, 0)}
        \cup (IF ReadsPastEnd(q.dim) THEN {Undefined} ELSE {})

\* a faulty operator<< that takes the generic overload for every type
operator_out_AlwaysGeneric(q) == operator_out_generic(q)

\* os << q: std::enable_if selects the overload
operator_out(q) ==
    IF HasFundamentalUnit(q.dim) THEN operator_out_named(q) ELSE operator_out_generic(q)

(***************************************************************************)
(* from_string.  The input is split into words the way operator>> of a     *)
(* std::stringstream does; std::stod converts the longest prefix of the    *)
(* first word that is a floating-point literal.                            *)
(***************************************************************************)
\* std::isspace, on the characters of the inputs
IsSpace(c) == c \in {" ", "\t"}

\* while (ss >> buf) unit_vector.push_back(buf);  word is the word being read
RECURSIVE Words(_, _)
Words(s, word) ==
    IF s = <<>> THEN (IF word = <<>> THEN <<>> ELSE <<word>>)
    ELSE IF IsSpace(Head(s))
         THEN (IF word = <<>> THEN <<>> ELSE <<word>>) \o Words(Tail(s), <<>>)
    ELSE Words(Tail(s), Append(word, Head(s)))

IsDigit(c) == \E d \in DOMAIN DigitChars : DigitChars[d] = c

\* the number of decimal digits of s from position p on
RECURSIVE DigitRun(_, _)
DigitRun(s, p) == IF p <= Len(s) /\ IsDigit(s[p]) THEN 1 + DigitRun(s, p + 1) ELSE 0

\* the number the c digits of s from position p on spell, continuing acc
RECURSIVE DigitsValue(_, _, _, _)
DigitsValue(s, p, c, acc) ==
    IF c = 0 THEN acc
    ELSE DigitsValue(s, p + 1, c - 1,
                     10 * acc + ((CHOOSE d \in DOMAIN DigitChars : DigitChars[d] = s[p]) - 1))

\* the decimal exponents between which a non-zero literal is a normal
\* double; literals whose exponent is one of the two limits are decided by
\* their digits and are not among the inputs
MaxDecimalExponent == 308

MinDecimalExponent == -308

\* std::stod(s): the converted value, or the exception thrown.  The
\* literals are decimal ones, "inf" and "nan" in lower case; a converted
\* decimal is taken to be a double as it stands.
stod(s) ==
    LET signed == Len(s) >= 1 /\ s[1] \in {"+", "-"}
        sign == IF Len(s) >= 1 /\ s[1] = "-" THEN -1 ELSE 1
        p0 == IF signed THEN 2 ELSE 1
        ni == DigitRun(s, p0)
        point == p0 + ni <= Len(s) /\ s[p0 + ni] = "."
        nf == IF point THEN DigitRun(s, p0 + ni + 1) ELSE 0
        pe == p0 + ni + (IF point THEN 1 + nf ELSE 0)
        esigned == pe + 1 <= Len(s) /\ s[pe + 1] \in {"+", "-"}
        pd == IF esigned THEN pe + 2 ELSE pe + 1
        ne == IF pe <= Len(s) /\ s[pe] \in {"e", "E"} THEN DigitRun(s, pd) ELSE 0
        E == (IF esigned /\ s[pe + 1] = "-" THEN -1 ELSE 1) * DigitsValue(s, pd, ne, 0)
        M == DigitsValue(s, p0 + ni + 1, nf, DigitsValue(s, p0, ni, 0))
        X == Len(Digits(M)) - 1 - nf + E
        word == SubSeq(s, p0, IF p0 + 2 <= Len(s) THEN p0 + 2 ELSE Len(s))
    IN  IF ni + nf = 0
        THEN (IF word = <<"i", "n", "f">> THEN [status |-> "ok", value |-> Inf(sign)]
              ELSE IF word = <<"n", "a", "n">> THEN [status |-> "ok", value |-> NaN]
              ELSE [status |-> "invalid_argument", value |-> NaN])
        ELSE IF M = 0 THEN [status |-> "ok", value |-> Zero]
        ELSE IF X > MaxDecimalExponent \/ X < MinDecimalExponent
             THEN [status |-> "out_of_range", value |-> NaN]
        ELSE [status |-> "ok",
              value |-> Fin(IF E - nf >= 0 THEN <<sign * M * IPow(10, E - nf), 1>>
                            ELSE Ratio(sign * M, IPow(10, nf - E)))]

\* a faulty from_string that assigns *value only once the unit is found
from_string_ChecksUnitFirst(input_val_unit, out) ==
    LET unit_vector == Words(input_val_unit, <<>>)
        number == stod(unit_vector[1])
        found == \E i \in DOMAIN UNITS : UNITS[i] = unit_vector[2]
    IN  IF Len(unit_vector) # 2 \/ number.status = "invalid_argument"
        THEN [kind |-> "bool", dim |-> Angle, value |-> out, truth |-> FALSE]
        ELSE IF number.status = "out_of_range"
             THEN [kind |-> "thrown", dim |-> Angle, value |-> out, truth |-> FALSE]
        ELSE [kind |-> "bool", dim |-> Angle,
              value |-> IF found THEN number.value ELSE out, truth |-> found]

\* from_string(input_val_unit, value): what it returns (or that an
\* exception leaves it) and the double value points to afterwards, out
\* being that double before the call
from_string(input_val_unit, out) ==
    LET unit_vector == Words(input_val_unit, <<>>)
        number == stod(unit_vector[1])
    IN  IF Len(unit_vector) # 2
        THEN [kind |-> "bool", dim |-> Angle, value |-> out, truth |-> FALSE]
        ELSE IF number.status = "invalid_argument"
             THEN [kind |-> "bool", dim |-> Angle, value |-> out, truth |-> FALSE]
        ELSE IF number.status = "out_of_range"
             THEN [kind |-> "thrown", dim |-> Angle, value |-> out, truth |-> FALSE]
        ELSE [kind |-> "bool", dim |-> Angle, value |-> number.value,
              truth |-> \E i \in DOMAIN UNITS : UNITS[i] = unit_vector[2]]

(***************************************************************************)
(* The unit constants and the user-defined literals.  They are constant    *)
(* expressions in double; the constants and literal arguments taken here   *)
(* are whole numbers, and a product of whole numbers below 2^53 is in      *)
(* double the real product.                                                *)
(***************************************************************************)
Whole(i) == Fin(<<i, 1>>)

\* a faulty product that adds
WholeTimes_Adds(x, y) == Fin(RatAdd(Rat(x), Rat(y)))

\* x * y in double, for whole numbers x and y
WholeTimes(x, y) == Fin(RatMul(Rat(x), Rat(y)))

Pressure == Dim(-1, 1, -2, 0, 0, 0, 0)

\* constexpr <type> <name> { <init> }, in the order of the header: the
\* initialiser is a number (of = ""), another constant (by = 0) or the
\* product by * of
UnitConstants == <<
    [name |-> "meter",         dim |-> Length,   by |-> 1,      of |-> ""],
    [name |-> "metre",         dim |-> Length,   by |-> 0,      of |-> "meter"],
    [name |-> "kilometer",     dim |-> Length,   by |-> 1000,   of |-> "meter"],
    [name |-> "kilometre",     dim |-> Length,   by |-> 0,      of |-> "kilometer"],
    [name |-> "nautical_mile", dim |-> Length,   by |-> 1852,   of |-> "meter"],
    [name |-> "kilogram",      dim |-> Mass,     by |-> 1,      of |-> ""],
    [name |-> "tonne",         dim |-> Mass,     by |-> 1000,   of |-> "kilogram"],
    [name |-> "metric_ton",    dim |-> Mass,     by |-> 0,      of |-> "tonne"],
    [name |-> "second",        dim |-> Time,     by |-> 1,      of |-> ""],
    [name |-> "minute",        dim |-> Time,     by |-> 60,     of |-> "second"],
    [name |-> "hour",          dim |-> Time,     by |-> 60,     of |-> "minute"],
    [name |-> "day",           dim |-> Time,     by |-> 24,     of |-> "hour"],
    [name |-> "week",          dim |-> Time,     by |-> 7,      of |-> "day"],
    [name |-> "fortnight",     dim |-> Time,     by |-> 2,      of |-> "week"],
    [name |-> "pascal",        dim |-> Pressure, by |-> 1,      of |-> ""],
    [name |-> "bar",           dim |-> Pressure, by |-> 100000, of |-> "pascal"],
    [name |-> "atm",           dim |-> Pressure, by |-> 101325, of |-> "pascal"] >>

\* the position of the definition of a constant
UnitIndex(name) == CHOOSE i \in DOMAIN UnitConstants : UnitConstants[i].name = name

\* the value the constant at position i stores
RECURSIVE UnitValue(_)
UnitValue(i) ==
    LET u == UnitConstants[i]
    IN  IF u.of = "" THEN Whole(u.by)
        ELSE IF u.by = 0 THEN UnitValue(UnitIndex(u.of))
        ELSE WholeTimes(Whole(u.by), UnitValue(UnitIndex(u.of)))

Unit(name) == Quantity(UnitConstants[UnitIndex(name)].dim, UnitValue(UnitIndex(name)))

\* constexpr <type> operator"" <suffix>(x) { return <type>(x * times[1] * ...); }
\* with the unit constant of the same name
UserLiterals == <<
    [suffix |-> "_km",    dim |-> Length,   times |-> <<1000>>,    unit |-> "kilometer"],
    [suffix |-> "_m",     dim |-> Length,   times |-> <<>>,        unit |-> "meter"],
    [suffix |-> "_tonne", dim |-> Mass,     times |-> <<1000>>,    unit |-> "tonne"],
    [suffix |-> "_kg",    dim |-> Mass,     times |-> <<>>,        unit |-> "kilogram"],
    [suffix |-> "_s",     dim |-> Time,     times |-> <<>>,        unit |-> "second"],
    [suffix |-> "_min",   dim |-> Time,     times |-> <<60>>,      unit |-> "minute"],
    [suffix |-> "_hr",    dim |-> Time,     times |-> <<60, 24>>,  unit |-> "hour"],
    [suffix |-> "_hour",  dim |-> Time,     times |-> <<60, 24>>,  unit |-> "hour"],
    [suffix |-> "_Pa",    dim |-> Pressure, times |-> <<>>,        unit |-> "pascal"],
    [suffix |-> "_bar",   dim |-> Pressure, times |-> <<1000000>>, unit |-> "bar"],
    [suffix |-> "_atm",   dim |-> Pressure, times |-> <<101325>>,  unit |-> "atm"] >>

\* x * times[1] * ... * times[Len(times)], from the left
RECURSIVE TimesAll(_, _)
TimesAll(x, times) ==
    IF times = <<>> THEN x ELSE TimesAll(WholeTimes(x, Whole(Head(times))), Tail(times))

\* the quantity x<suffix> for the literal at position i
operator_literal(i, x) == Quantity(UserLiterals[i].dim, TimesAll(x, UserLiterals[i].times))

(***************************************************************************)
(* The state.  A program is a sequence of statements `auto r = <expr>;`    *)
(* each followed, possibly, by `x = r`.  op, lhs, rhs, k, n and res are    *)
(* the expression evaluated last, its operands and its outcome; x is the   *)
(* variable holding an earlier result and depth counts the results that    *)
(* went into it (0: x is not set); text is the text an expression wrote   *)
(* to a stream or the string passed to from_string.  A program may also    *)
(* run q += a on one quantity q from several threads: pc is each thread's  *)
(* position in value += rhs.value and tmp the value it has read.           *)
(***************************************************************************)
VARIABLES op, lhs, rhs, k, n, res, x, depth, text, pc, tmp

vars == <<op, lhs, rhs, k, n, res, x, depth, text, pc, tmp>>

InputDims == {Length, Time}

InputValues == Doubles

InputQuantities == {Quantity(d, v) : d \in InputDims, v \in InputValues}

Unused == Quantity(Angle, Zero)

Current == Quantity(res.dim, res.value)

\* the unit quantities and plain numbers written next to x
UnitQuantities == {Quantity(d, One) : d \in InputDims}

UnitScalars == {Zero, One, FNeg(One)}

\* the operands of the first expression are program inputs; those of a
\* later one are x and, next to it, x again or a unit
LeftOperands == IF depth > 0 THEN {x} ELSE InputQuantities

OperandPairs ==
    IF depth > 0 THEN ({x} \X UnitQuantities) \cup {<<x, x>>}
    ELSE InputQuantities \X InputQuantities

Scalars == IF depth > 0 THEN UnitScalars ELSE InputValues

\* the types without a fundamental unit among the aliases of the library:
\* Area, Volume, WaveNumber, MassDensity, SpecificVolume, CurrentDensity,
\* MagneticFieldStrength, SubstanceConcentration
UnnamedTypes == {
    Dim(2, 0, 0, 0, 0, 0, 0), Dim(3, 0, 0, 0, 0, 0, 0), Dim(-1, 0, 0, 0, 0, 0, 0),
    Dim(-3, 1, 0, 0, 0, 0, 0), Dim(3, -1, 0, 0, 0, 0, 0), Dim(-2, 0, 0, 1, 0, 0, 0),
    Dim(-1, 0, 0, 1, 0, 0, 0), Dim(-3, 0, 0, 0, 0, 1, 0) }

\* the quantities a program writes to a stream: x, or a quantity of one of
\* the library's types constructed from a literal
PrintedDims == {FundamentalUnit[i].dim : i \in DOMAIN FundamentalUnit} \cup UnnamedTypes

PrintedValues ==
    {Zero, One, Fin(<<1000, 1>>), Fin(<<3, 4>>), Fin(<<-5, 2>>), Fin(<<1234567, 1>>),
     Inf(1), NaN}

PrintedQuantities ==
    IF depth > 0 THEN {x} ELSE {Quantity(d, v) : d \in PrintedDims, v \in PrintedValues}

\* the strings a program passes to from_string: a first word, a separation,
\* a second word, with or without white space before and a third word after
NumberWords == {
    <<"9", "0">>, <<"a", "b", "c">>, <<"1", "2", "a", "b", "c">>,
    <<"1", ".", "5">>, <<"-", "2">>, <<".", "5">>,
    <<"1", "e", "9", "9", "9">>, <<"1", "e", "-", "9", "9", "9">>, <<"i", "n", "f">>,
    <<>>, <<"1">>, <<"1", "0", "0", "0">>,
    <<"1", ".", "2", "3", "4", "5", "7", "e", "+", "0", "6">> }

UnitWords ==
    {FundamentalUnit[i].Name : i \in DOMAIN FundamentalUnit}
        \cup {<<>>, <<"d", "e", "g">>, <<"d", "e", "g", "r", "e", "e", "s">>,
              <<"k", "m">>, <<"M">>}

ParsedStrings ==
    {lead \o first \o sep \o second \o rest :
        lead \in {<<>>, <<" ">>}, first \in NumberWords,
        sep \in {<<>>, <<" ">>, <<"\t", " ">>}, second \in UnitWords,
        rest \in {<<>>, <<" ", "x">>}}

\* the threads of a program that shares a quantity
Threads == {1, 2}

\* the quantities the threads share: q, which each adds a to
SharedQuantities == {Quantity(Length, Zero), Quantity(Length, One)}

\* the double the caller's variable holds before the call
OutputsBefore == {Zero, One}

Init ==
    /\ op = "none"
    /\ lhs = Unused
    /\ rhs = Unused
    /\ k = Zero
    /\ n = 0
    /\ res = NoRes
    /\ x = Unused
    /\ depth = 0
    /\ text = <<>>
    /\ pc = [t \in Threads |-> "idle"]
    /\ tmp = [t \in Threads |-> Zero]

\* a faulty evaluation that writes the outcome to the operand x
Evaluated_Clobbers(name, a, b, s, e, r) ==
    /\ op' = name
    /\ lhs' = a
    /\ rhs' = b
    /\ k' = s
    /\ n' = e
    /\ res' = r
    /\ x' = Quantity(r.dim, r.value)
    /\ UNCHANGED <<depth, text, pc, tmp>>

\* auto r = <expr>: the expression, its operands and its outcome are recorded
Evaluated(name, a, b, s, e, r) ==
    /\ op' = name
    /\ lhs' = a
    /\ rhs' = b
    /\ k' = s
    /\ n' = e
    /\ res' = r
    /\ UNCHANGED <<x, depth, text, pc, tmp>>

Add ==
    /\ op = "none"
    /\ \E p \in OperandPairs :
        Evaluated("add", p[1], p[2], Zero, 0, operator_plus(p[1], p[2]))

Subtract ==
    /\ op = "none"
    /\ \E p \in OperandPairs :
        Evaluated("sub", p[1], p[2], Zero, 0, operator_minus(p[1], p[2]))

Multiply ==
    /\ op = "none"
    /\ \E p \in OperandPairs :
        Evaluated("mul", p[1], p[2], Zero, 0, operator_times(p[1], p[2]))

Divide ==
    /\ op = "none"
    /\ \E p \in OperandPairs :
        Evaluated("div", p[1], p[2], Zero, 0, operator_divide(p[1], p[2]))

Equal ==
    /\ op = "none"
    /\ \E p \in OperandPairs :
        Evaluated("eq", p[1], p[2], Zero, 0, operator_eq(p[1], p[2]))

NotEqual ==
    /\ op = "none"
    /\ \E p \in OperandPairs :
        Evaluated("ne", p[1], p[2], Zero, 0, operator_ne(p[1], p[2]))

LessEqual ==
    /\ op = "none"
    /\ \E p \in OperandPairs :
        Evaluated("le", p[1], p[2], Zero, 0, operator_le(p[1], p[2]))

GreaterEqual ==
    /\ op = "none"
    /\ \E p \in OperandPairs :
        Evaluated("ge", p[1], p[2], Zero, 0, operator_ge(p[1], p[2]))

Less ==
    /\ op = "none"
    /\ \E p \in OperandPairs :
        Evaluated("lt", p[1], p[2], Zero, 0, operator_lt(p[1], p[2]))

Greater ==
    /\ op = "none"
    /\ \E p \in OperandPairs :
        Evaluated("gt", p[1], p[2], Zero, 0, operator_gt(p[1], p[2]))

In ==
    /\ op = "none"
    /\ \E p \in OperandPairs :
        Evaluated("in", p[1], p[2], Zero, 0, in(p[1], p[2]))

ScalarMultiplyRight ==
    /\ op = "none"
    /\ \E a \in LeftOperands, s \in Scalars :
        Evaluated("mulk", a, Unused, s, 0, scalar_times_right(a, s))

ScalarMultiplyLeft ==
    /\ op = "none"
    /\ \E a \in LeftOperands, s \in Scalars :
        Evaluated("kmul", a, Unused, s, 0, scalar_times_left(s, a))

ScalarDivide ==
    /\ op = "none"
    /\ \E a \in LeftOperands, s \in Scalars :
        Evaluated("divk", a, Unused, s, 0, scalar_divide(a, s))

ReciprocalScalar ==
    /\ op = "none"
    /\ \E a \in LeftOperands, s \in Scalars :
        Evaluated("kdiv", a, Unused, s, 0, scalar_over(s, a))

Sqrt ==
    /\ op = "none"
    /\ \E a \in LeftOperands :
        Evaluated("sqrt", a, Unused, Zero, 0, sqrt(a))

Pow ==
    /\ op = "none"
    /\ \E a \in LeftOperands, e \in (-MaxPow) .. MaxPow :
        Evaluated("pow", a, Unused, Zero, e, pow(e, a))

\* os << q
Format ==
    /\ op = "none"
    /\ \E q \in PrintedQuantities : \E o \in operator_out(q) :
        /\ op' = "format"
        /\ lhs' = q
        /\ res' = [kind |-> o.kind, dim |-> Angle, value |-> Zero, truth |-> FALSE]
        /\ text' = o.text
        /\ UNCHANGED <<rhs, k, n, x, depth, pc, tmp>>

\* double v = ...; bool r = from_string(s, &v)
Parse ==
    /\ op = "none"
    /\ depth = 0
    /\ \E s \in ParsedStrings, v \in OutputsBefore :
        /\ op' = "parse"
        /\ text' = s
        /\ k' = v
        /\ res' = from_string(s, v)
        /\ UNCHANGED <<lhs, rhs, n, x, depth, pc, tmp>>

\* std::stringstream os; os << q; double v = ...; bool r = from_string(os.str(), &v)
ParseWritten ==
    /\ op = "format"
    /\ res.kind = "text"
    /\ \E v \in OutputsBefore :
        /\ op' = "parse_written"
        /\ k' = v
        /\ res' = from_string(text, v)
        /\ UNCHANGED <<lhs, rhs, n, x, depth, text, pc, tmp>>

\* auto& r = (x += b), b being a quantity of the type of x: lhs is x before
\* the statement, rhs is b, which the operator only reads, and res is the
\* reference returned
PlusAssign ==
    /\ op = "none"
    /\ depth > 0
    /\ op' = "plus_assign"
    /\ lhs' = x
    /\ rhs' = Quantity(x.dim, One)
    /\ x' = operator_plus_assign(x, Quantity(x.dim, One))
    /\ res' = QuantityRes(operator_plus_assign(x, Quantity(x.dim, One)).dim,
                        operator_plus_assign(x, Quantity(x.dim, One)).value)
    /\ UNCHANGED <<k, n, depth, text, pc, tmp>>

\* auto& r = (x -= b)
MinusAssign ==
    /\ op = "none"
    /\ depth > 0
    /\ op' = "minus_assign"
    /\ lhs' = x
    /\ rhs' = Quantity(x.dim, One)
    /\ x' = operator_minus_assign(x, Quantity(x.dim, One))
    /\ res' = QuantityRes(operator_minus_assign(x, Quantity(x.dim, One)).dim,
                        operator_minus_assign(x, Quantity(x.dim, One)).value)
    /\ UNCHANGED <<k, n, depth, text, pc, tmp>>

\* the numbers written before a literal suffix
LiteralArguments == {Whole(0), Whole(1), Whole(2), Whole(5), Whole(10), Whole(90)}

\* auto r = x<suffix>;  n is the position of the literal operator, k is x
\* and lhs the unit constant the suffix names
Literal ==
    /\ op = "none"
    /\ depth = 0
    /\ \E i \in DOMAIN UserLiterals, v \in LiteralArguments :
        /\ op' = "literal"
        /\ n' = i
        /\ k' = v
        /\ lhs' = Unit(UserLiterals[i].unit)
        /\ res' = QuantityRes(operator_literal(i, v).dim, operator_literal(i, v).value)
        /\ UNCHANGED <<rhs, x, depth, text, pc, tmp>>

\* auto r = <constant>;  n is the position of the constant's definition
Constant ==
    /\ op = "none"
    /\ depth = 0
    /\ \E i \in DOMAIN UnitConstants :
        /\ op' = "unit"
        /\ n' = i
        /\ res' = QuantityRes(UnitConstants[i].dim, UnitValue(i))
        /\ UNCHANGED <<lhs, rhs, k, x, depth, text, pc, tmp>>

\* Length q(...); std::thread t1([&]{ q += a; }), t2([&]{ q += a; });
\* lhs is q, rhs is a and k the value of q before the threads start
StartThreads ==
    /\ op = "none"
    /\ depth = 0
    /\ \E q \in SharedQuantities, a \in UnitQuantities :
        /\ SameType(q.dim, a.dim)
        /\ op' = "threads"
        /\ lhs' = q
        /\ rhs' = a
        /\ k' = q.value
        /\ pc' = [t \in Threads |-> "load"]
        /\ UNCHANGED <<n, res, x, depth, text, tmp>>

\* value += rhs.value, first half: a thread reads value
Load ==
    /\ op = "threads"
    /\ \E t \in Threads :
        /\ pc[t] = "load"
        /\ tmp' = [tmp EXCEPT ![t] = lhs.value]
        /\ pc' = [pc EXCEPT ![t] = "store"]
        /\ UNCHANGED <<op, lhs, rhs, k, n, res, x, depth, text>>

\* value += rhs.value, second half: the thread writes the sum to value;
\* nothing orders the two halves of one thread against those of the other
StoreBack ==
    /\ op = "threads"
    /\ \E t \in Threads :
        /\ pc[t] = "store"
        /\ lhs' = Quantity(lhs.dim, FAdd(tmp[t], rhs.value))
        /\ pc' = [pc EXCEPT ![t] = "done"]
        /\ UNCHANGED <<op, rhs, k, n, res, x, depth, text, tmp>>

\* t1.join(); t2.join(); auto r = q
Join ==
    /\ op = "threads"
    /\ \A t \in Threads : pc[t] = "done"
    /\ op' = "joined"
    /\ res' = QuantityRes(lhs.dim, lhs.value)
    /\ pc' = [t \in Threads |-> "idle"]
    /\ tmp' = [t \in Threads |-> Zero]
    /\ UNCHANGED <<lhs, rhs, k, n, x, depth, text>>

\* x = r: keep the quantity just computed from operands as the operand of
\* later expressions
Store ==
    /\ res.kind = "quantity"
    /\ op \notin {"unit", "literal", "plus_assign", "minus_assign", "joined"}
    /\ depth < MaxDepth
    /\ x' = Current
    /\ depth' = depth + 1
    /\ op' = "none"
    /\ lhs' = Unused
    /\ rhs' = Unused
    /\ k' = Zero
    /\ n' = 0
    /\ res' = NoRes
    /\ UNCHANGED <<text, pc, tmp>>

Next ==
    \/ Add
    \/ Subtract
    \/ Multiply
    \/ Divide
    \/ Equal
    \/ NotEqual
    \/ LessEqual
    \/ GreaterEqual
    \/ Less
    \/ Greater
    \/ In
    \/ ScalarMultiplyRight
    \/ ScalarMultiplyLeft
    \/ ScalarDivide
    \/ ReciprocalScalar
    \/ Sqrt
    \/ Pow
    \/ PlusAssign
    \/ MinusAssign
    \/ Format
    \/ Parse
    \/ ParseWritten
    \/ Constant
    \/ Literal
    \/ StartThreads
    \/ Load
    \/ StoreBack
    \/ Join
    \/ Store

Spec == Init /\ [][Next]_vars

TypeOK ==
    /\ res.kind \in {"none", "quantity", "number", "bool", "rejected", "text", "undefined", "thrown"}
    /\ op \notin {"parse", "parse_written", "unit", "literal"} => res.value \in Doubles
    /\ op \in {"unit", "literal"} => IsFinite(res.value) /\ res.value.den = 1
    /\ op \in {"parse", "parse_written"} => res.value.cls \in {"fin", "inf", "nan"} /\ res.value.den > 0
    /\ op # "literal" => lhs.value \in Doubles \cup PrintedValues
    /\ op = "literal" => IsFinite(lhs.value) /\ lhs.value.den = 1
    /\ rhs.value \in Doubles
    /\ pc \in [Threads -> {"idle", "load", "store", "done"}]
    /\ tmp \in [Threads -> Doubles]

(***************************************************************************)
(* Vocabulary of the properties.  Exponents are compared as rationals by   *)
(* cross-multiplication, independently of how the library reduces them.    *)
(***************************************************************************)
RationalEqual(r1, r2) == r1[1] * r2[2] = r2[1] * r1[2]

SameDimension(d1, d2) == \A i \in Axes : RationalEqual(d1[i], d2[i])

\* r is the rational sum, difference, negation, half or n-fold of exponents
IsSum(r, r1, r2) == r[1] * r1[2] * r2[2] = (r1[1] * r2[2] + r2[1] * r1[2]) * r[2]

IsDifference(r, r1, r2) == r[1] * r1[2] * r2[2] = (r1[1] * r2[2] - r2[1] * r1[2]) * r[2]

IsNegation(r, r1) == r[1] * r1[2] = -r1[1] * r[2]

IsHalf(r, r1) == 2 * r[1] * r1[2] = r1[1] * r[2]

IsMultiple(r, r1, m) == r[1] * r1[2] = m * r1[1] * r[2]

CompareOps == {"eq", "ne", "le", "ge", "lt", "gt"}

Speed == <<<<1, 1>>, <<0, 1>>, <<-1, 1>>, <<0, 1>>, <<0, 1>>, <<0, 1>>, <<0, 1>>>>

Acceleration == <<<<1, 1>>, <<0, 1>>, <<-2, 1>>, <<0, 1>>, <<0, 1>>, <<0, 1>>, <<0, 1>>>>

HalfLength == <<<<1, 2>>, <<0, 1>>, <<0, 1>>, <<0, 1>>, <<0, 1>>, <<0, 1>>, <<0, 1>>>>

IsNegative(v) == ~IsNaN(v) /\ v.num < 0

\* the real sum (product) of two finite values is representable as it is
ExactSum(a, b, s) ==
    IsFinite(a) /\ IsFinite(b) /\ IsFinite(s) /\ Rat(s) = RatAdd(Rat(a), Rat(b))

\* the real square of a finite value is zero or in the normal range
SquareInRange(a) ==
    /\ IsFinite(a)
    /\ LET sq == RatMul(Rat(a), Rat(a))
       IN  sq[1] = 0 \/ (RatLeq(MinNormal, sq) /\ RatLeq(sq, MaxFinite))

\* C1: adding or subtracting two quantities of different dimensions is
\* always rejected; it yields neither a quantity nor a plain number.
C1_MismatchedSumRejected ==
    (op \in {"add", "sub"} /\ ~SameDimension(lhs.dim, rhs.dim))
        => res.kind = "rejected"

C3_MultiplyAddsExponents ==
    op = "mul"
        => /\ res.kind = "quantity"
           /\ res.value = FMul(lhs.value, rhs.value)
           /\ \A i \in Axes : IsSum(res.dim[i], lhs.dim[i], rhs.dim[i])

C3_Witness ==
    /\ op = "mul"
    /\ lhs.dim = Speed
    /\ rhs.dim = Time
    /\ res.kind = "quantity"
    /\ res.dim = Length
    /\ IsFinite(res.value) /\ res.value.num > 0

\* C4: division by a quantity of non-zero value gives the quotient of the
\* values and the difference of the exponents; Length/Time is a Speed and
\* Speed/Time an Acceleration.
C4_DivideSubtractsExponents ==
    (op = "div" /\ ~IsZero(rhs.value))
        => /\ res.kind = "quantity"
           /\ res.value = FDiv(lhs.value, rhs.value)
           /\ \A i \in Axes : IsDifference(res.dim[i], lhs.dim[i], rhs.dim[i])
           /\ (lhs.dim = Length /\ rhs.dim = Time) => res.dim = Speed
           /\ (lhs.dim = Speed /\ rhs.dim = Time) => res.dim = Acceleration

C4_Witness ==
    /\ op = "div"
    /\ lhs.dim = Speed
    /\ rhs.dim = Time
    /\ ~IsZero(rhs.value)
    /\ res.dim = Acceleration
    /\ IsFinite(res.value) /\ res.value.num # 0

\* what a + b and a - b give for operands of one dimension
SumKeepsDimension ==
    /\ (op = "add" /\ SameDimension(lhs.dim, rhs.dim))
        => /\ res.kind = "quantity"
           /\ res.dim = lhs.dim
           /\ res.value = FAdd(lhs.value, rhs.value)
    /\ (op = "sub" /\ SameDimension(lhs.dim, rhs.dim))
        => /\ res.kind = "quantity"
           /\ res.dim = lhs.dim
           /\ res.value = FSub(lhs.value, rhs.value)

\* (a + b) - b is a quantity of a's dimension that compares equal to a
RoundTripHolds ==
    LET back == operator_minus(Current, rhs)
    IN  /\ back.kind = "quantity"
        /\ back.dim = lhs.dim
        /\ operator_eq(Quantity(back.dim, back.value), lhs) = BoolRes(TRUE)

\* C5 (as stated): for a and b of one dimension D, a + b and a - b have the
\* sum and the difference of the values and dimension D, and (a + b) - b
\* equals a.
C5_AsStated ==
    /\ SumKeepsDimension
    /\ (op = "add" /\ SameDimension(lhs.dim, rhs.dim)
            /\ IsFinite(lhs.value) /\ IsFinite(rhs.value))
        => RoundTripHolds

\* C5 (amended): as above, with (a + b) - b equal to a whenever the sum
\* a.value + b.value is representable exactly, that is computed without
\* rounding or overflow.
C5_AddSubtractRoundTrip ==
    /\ SumKeepsDimension
    /\ (op = "add" /\ SameDimension(lhs.dim, rhs.dim)
            /\ ExactSum(lhs.value, rhs.value, res.value))
        => RoundTripHolds

C5_Witness ==
    /\ op = "add"
    /\ lhs.dim = HalfLength
    /\ rhs.dim = HalfLength
    /\ ExactSum(lhs.value, rhs.value, res.value)
    /\ lhs.value.num > 0
    /\ RoundTripHolds

\* C6: every division with a zero divisor fails instead of returning a
\* quantity: a / b with b.value = 0, a / k with k = 0, k / a with a.value = 0.
C6_ZeroDivisorFails ==
    (\/ op = "div" /\ IsZero(rhs.value)
     \/ op = "divk" /\ IsZero(k)
     \/ op = "kdiv" /\ IsZero(lhs.value))
        => res.kind # "quantity"

\* C7: for a of non-zero value, fractional exponents included, k / a has
\* value k / a.value and every exponent is the exact rational negation of
\* a's exponent.
C7_ReciprocalNegatesExponents ==
    (op = "kdiv" /\ ~IsZero(lhs.value))
        => /\ res.kind = "quantity"
           /\ res.value = FDiv(k, lhs.value)
           /\ \A i \in Axes : IsNegation(res.dim[i], lhs.dim[i])

\* C8: sqrt of a quantity of negative value fails; it never returns a
\* quantity.
C8_SqrtOfNegativeFails ==
    (op = "sqrt" /\ IsNegative(lhs.value)) => res.kind # "quantity"

\* sqrt halves every exponent exactly
SqrtHalvesExponents ==
    (op = "sqrt" /\ ~IsNaN(lhs.value) /\ ~IsNegative(lhs.value))
        => /\ res.kind = "quantity"
           /\ \A i \in Axes : IsHalf(res.dim[i], lhs.dim[i])

\* sqrt(a * a) is a quantity of a's dimension that compares equal to a
SqrtOfSquareHolds ==
    LET root == sqrt(Current)
    IN  /\ root.kind = "quantity"
        /\ root.dim = lhs.dim
        /\ operator_eq(Quantity(root.dim, root.value), lhs) = BoolRes(TRUE)

\* C9 (as stated): for a of value >= 0, sqrt(a) has every exponent halved
\* and sqrt(a * a) equals a, with a's dimension.
C9_AsStated ==
    /\ SqrtHalvesExponents
    /\ (op = "mul" /\ rhs = lhs /\ IsFinite(lhs.value) /\ lhs.value.num >= 0)
        => SqrtOfSquareHolds

\* C9 (amended): as above, with sqrt(a * a) equal to a whenever the square
\* a.value * a.value neither overflows nor underflows.
C9_SqrtOfSquare ==
    /\ SqrtHalvesExponents
    /\ (op = "mul" /\ rhs = lhs /\ lhs.value.num >= 0 /\ SquareInRange(lhs.value))
        => SqrtOfSquareHolds

C9_Witness ==
    /\ op = "mul"
    /\ rhs = lhs
    /\ lhs.dim = HalfLength
    /\ lhs.value.num > 0
    /\ SquareInRange(lhs.value)
    /\ res.value # lhs.value
    /\ SqrtOfSquareHolds

\* the real n-th power of a finite value, rounded to the nearest value
RoundedPower(v, e) == Round(RatPow(Rat(v), e))

\* C10: for every integer n (a.value # 0 when n < 0), pow<n>(a) has value
\* a.value raised to n and every exponent multiplied by n; pow<2>(metre)
\* has the stored value of the square metre and the dimension of
\* Length * Length.
C10_PowerScalesExponents ==
    (op = "pow" /\ (n >= 0 \/ ~IsZero(lhs.value)))
        => /\ res.kind = "quantity"
           /\ \A i \in Axes : IsMultiple(res.dim[i], lhs.dim[i], n)
           /\ IsFinite(lhs.value) => res.value = RoundedPower(lhs.value, n)
           /\ (lhs = meter /\ n = 2)
                => /\ res.value = meter2.value
                   /\ res.dim = meter2.dim
                   /\ res.dim = operator_times(Quantity(Length, One),
                                               Quantity(Length, One)).dim

C10_Witness ==
    /\ op = "pow"
    /\ n = -2
    /\ lhs.dim = HalfLength
    /\ IsFinite(lhs.value) /\ lhs.value.num > 1
    /\ res.kind = "quantity"
    /\ res.dim[1] = <<-1, 1>>
    /\ IsFinite(res.value) /\ res.value.num > 0

\* the real product (quotient) of two finite values, rounded to the nearest value
RoundedProduct(v, w) == Round(RatMul(Rat(v), Rat(w)))

RoundedQuotient(v, w) == Round(RatDiv(Rat(v), Rat(w)))

\* C11: a * k and k * a are one and the same quantity, of value a.value * k
\* and of a's dimension; a / k with k # 0 has value a.value / k and a's
\* dimension.
C11_ScalarKeepsDimension ==
    /\ (op \in {"mulk", "kmul"})
        => /\ res.kind = "quantity"
           /\ res.dim = lhs.dim
           /\ (IsFinite(lhs.value) /\ IsFinite(k))
                => res.value = RoundedProduct(lhs.value, k)
           /\ res = scalar_times_right(lhs, k)
           /\ res = scalar_times_left(k, lhs)
    /\ (op = "divk" /\ ~IsZero(k))
        => /\ res.kind = "quantity"
           /\ res.dim = lhs.dim
           /\ (IsFinite(lhs.value) /\ IsFinite(k))
                => res.value = RoundedQuotient(lhs.value, k)

C11_Witness ==
    /\ op = "kmul"
    /\ lhs.dim = HalfLength
    /\ k = FNeg(One)
    /\ IsFinite(lhs.value) /\ lhs.value.num > 0
    /\ res.dim = HalfLength
    /\ res.value = FNeg(lhs.value)

\* the order of the extended reals on the values that are not NaN
ValueLess(v, w) ==
    /\ ~IsNaN(v) /\ ~IsNaN(w) /\ v # w
    /\ \/ IsInf(v) /\ v.num < 0
       \/ IsInf(w) /\ w.num > 0
       \/ IsFinite(v) /\ IsFinite(w) /\ RatLess(Rat(v), Rat(w))

ValueEqual(v, w) == ~IsNaN(v) /\ ~IsNaN(w) /\ v = w

\* the six comparisons of the operands of the expression evaluated last
HoldsEq == operator_eq(lhs, rhs).truth

HoldsNe == operator_ne(lhs, rhs).truth

HoldsLe == operator_le(lhs, rhs).truth

HoldsGe == operator_ge(lhs, rhs).truth

HoldsLt == operator_lt(lhs, rhs).truth

HoldsGt == operator_gt(lhs, rhs).truth

Compared == op \in CompareOps /\ SameDimension(lhs.dim, rhs.dim)

\* the comparisons follow the values exactly and are consistent with each other
ComparisonsFollowValues ==
    Compared
        => /\ res.kind = "bool"
           /\ res.truth = (CASE op = "eq" -> HoldsEq [] op = "ne" -> HoldsNe
                             [] op = "le" -> HoldsLe [] op = "ge" -> HoldsGe
                             [] op = "lt" -> HoldsLt [] op = "gt" -> HoldsGt)
           /\ HoldsEq <=> ValueEqual(lhs.value, rhs.value)
           /\ HoldsLt <=> ValueLess(lhs.value, rhs.value)
           /\ HoldsGt <=> ValueLess(rhs.value, lhs.value)
           /\ HoldsNe <=> ~HoldsEq
           /\ HoldsLe <=> (HoldsLt \/ HoldsEq)
           /\ HoldsGe <=> (HoldsGt \/ HoldsEq)

ExactlyOneOrder ==
    Cardinality({c \in {"lt", "eq", "gt"} :
        (c = "lt" /\ HoldsLt) \/ (c = "eq" /\ HoldsEq) \/ (c = "gt" /\ HoldsGt)}) = 1

\* C12 (as stated): for a and b of one dimension the comparisons follow the
\* stored values with exact equality, != is the negation of ==, <= is < or
\* ==, >= is > or ==, and exactly one of a < b, a == b, a > b holds.
C12_AsStated ==
    /\ ComparisonsFollowValues
    /\ Compared => ExactlyOneOrder

\* C12 (amended): as above, with exactly one of a < b, a == b, a > b
\* holding whenever neither value is NaN; when a value is NaN, != holds and
\* the other five comparisons do not.
C12_ComparisonsAgreeWithOrder ==
    /\ ComparisonsFollowValues
    /\ (Compared /\ ~IsNaN(lhs.value) /\ ~IsNaN(rhs.value)) => ExactlyOneOrder
    /\ (Compared /\ (IsNaN(lhs.value) \/ IsNaN(rhs.value)))
        => /\ HoldsNe
           /\ ~(HoldsEq \/ HoldsLt \/ HoldsGt \/ HoldsLe \/ HoldsGe)

C12_Witness ==
    /\ op = "le"
    /\ lhs.dim = Time /\ rhs.dim = Time
    /\ IsFinite(lhs.value) /\ lhs.value.num < 0
    /\ rhs.value = Inf(1)
    /\ res = BoolRes(TRUE)
    /\ ExactlyOneOrder

\* the real product of two finite values is representable as it is
ExactProduct(v, w, p) ==
    IsFinite(v) /\ IsFinite(w) /\ IsFinite(p) /\ Rat(p) = RatMul(Rat(v), Rat(w))

IsUnitValue(v) == IsFinite(v) /\ ~IsZero(v)

\* a.in(u) is the quotient of the stored values; it is 1 when a holds the
\* very value of the unit (1000 in base units against the kilometre, 60
\* against the minute)
InGivesQuotient ==
    (op = "in" /\ SameDimension(lhs.dim, rhs.dim))
        => /\ res.kind = "number"
           /\ (IsFinite(lhs.value) /\ IsUnitValue(rhs.value))
                => res.value = RoundedQuotient(lhs.value, rhs.value)
           /\ (IsUnitValue(rhs.value) /\ lhs.value = rhs.value)
                => res.value = One

\* (k * u).in(u) is k
ScaledUnitGivesScalar == in(Current, lhs) = NumberRes(k)

\* C13 (as stated): a.in(u) is a.value / u.value for a and u of one
\* dimension, so that (k * u).in(u) is k for every scalar k.
C13_AsStated ==
    /\ InGivesQuotient
    /\ (op = "kmul" /\ IsFinite(k) /\ IsUnitValue(lhs.value))
        => ScaledUnitGivesScalar

\* C13 (amended): as above, with (k * u).in(u) equal to k whenever the
\* product k * u.value is representable exactly.
C13_InGivesRatio ==
    /\ InGivesQuotient
    /\ (op = "kmul" /\ IsUnitValue(lhs.value) /\ ExactProduct(k, lhs.value, res.value))
        => ScaledUnitGivesScalar

C13_Witness ==
    /\ op = "kmul"
    /\ lhs.dim = HalfLength
    /\ IsUnitValue(lhs.value) /\ lhs.value # One
    /\ k = FNeg(One)
    /\ ExactProduct(k, lhs.value, res.value)
    /\ ScaledUnitGivesScalar

\* the real quotient of two finite values is representable as it is
ExactQuotient(v, w, q) ==
    /\ IsFinite(v) /\ IsFinite(w) /\ ~IsZero(w) /\ IsFinite(q)
    /\ RatMul(Rat(q), Rat(w)) = Rat(v)

\* (a / b) * b has a's dimension, exponent by exponent
ProductOfQuotientKeepsDimension ==
    (op = "div" /\ ~IsZero(rhs.value))
        => LET back == operator_times(Current, rhs)
           IN  /\ res.kind = "quantity"
               /\ back.kind = "quantity"
               /\ back.dim = lhs.dim
               /\ \A i \in Axes : RationalEqual(back.dim[i], lhs.dim[i])

\* (a / b) * b stores the value of a
ProductOfQuotientKeepsValue == operator_times(Current, rhs).value = lhs.value

\* C14 (as stated): for a and b of any dimensions with b.value # 0,
\* (a / b) * b has exactly a's dimension and stores a's value.
C14_AsStated ==
    /\ ProductOfQuotientKeepsDimension
    /\ (op = "div" /\ IsFinite(lhs.value) /\ IsUnitValue(rhs.value))
        => ProductOfQuotientKeepsValue

\* C14 (amended): as above, with the value of a stored whenever the
\* quotient a.value / b.value is representable exactly.
C14_MultiplyUndoesDivide ==
    /\ ProductOfQuotientKeepsDimension
    /\ (op = "div" /\ ExactQuotient(lhs.value, rhs.value, res.value))
        => ProductOfQuotientKeepsValue

C14_Witness ==
    /\ op = "div"
    /\ lhs.dim = HalfLength
    /\ rhs.dim = Time
    /\ ExactQuotient(lhs.value, rhs.value, res.value)
    /\ lhs.value.num > 0
    /\ operator_times(Current, rhs) = QuantityRes(HalfLength, lhs.value)

\* an exponent is written in lowest terms with a positive denominator
LowestTerms(r) == r[2] > 0 /\ GCD(Abs(r[1]), r[2]) = 1

\* the dimension vectors of the quantities a program holds
DimensionsHeld == {lhs.dim, rhs.dim, x.dim} \cup (IF res.kind = "quantity" THEN {res.dim} ELSE {})

\* C15: after any sequence of multiplications, divisions, reciprocals, square
\* roots and powers from the built-in dimensions every exponent is in lowest
\* terms with a positive denominator, so that two dimension vectors are the
\* same dimension exactly when their numerators and denominators are
\* pairwise identical.
C15_ExponentsInLowestTerms ==
    /\ \A d \in DimensionsHeld : \A i \in Axes : LowestTerms(d[i])
    /\ \A d1, d2 \in DimensionsHeld : SameDimension(d1, d2) <=> d1 = d2

C15_Witness ==
    /\ op = "mul"
    /\ depth > 0
    /\ lhs.dim = HalfLength
    /\ rhs.dim = HalfLength
    /\ res.kind = "quantity"
    /\ res.dim = Length

\* the names registered for a dimension, looked up by the value of the exponents
RegisteredNames(d) ==
    {FundamentalUnit[i].Name : i \in {j \in DOMAIN FundamentalUnit :
                                        SameDimension(FundamentalUnit[j].dim, d)}}

Formatted == op = "format"

\* C16: a quantity whose dimension has a registered name is written as its
\* value, one space and that name, whatever unit it was built from; a Length
\* of 1000 is written "1000 m".
C16_NamedFormat ==
    (Formatted /\ RegisteredNames(lhs.dim) # {})
        => /\ res.kind = "text"
           /\ \E v \in FormatDouble(lhs.value), u \in RegisteredNames(lhs.dim) :
                text = v \o <<" ">> \o u
           /\ lhs = Quantity(Length, Fin(<<1000, 1>>))
                => text = <<"1", "0", "0", "0", " ", "m">>

C16_Witness ==
    /\ Formatted
    /\ lhs = Quantity(Length, Fin(<<1000, 1>>))
    /\ res.kind = "text"
    /\ text = <<"1", "0", "0", "0", " ", "m">>

\* the symbols of the seven base axes in the order length, mass, time,
\* current, temperature, substance, luminous intensity
AxisSymbols ==
    <<<<"m">>, <<"k", "g">>, <<"s">>, <<"A">>, <<"K">>, <<"m", "o", "l">>, <<"c", "d">>>>

\* " sym" for the exponent 1, " sym^n" for another integer n, " sym^n/d" for
\* a fraction n/d, nothing for 0; the axes from a on, in order
RECURSIVE AxisTexts(_, _)
AxisTexts(d, a) ==
    IF a > NUM_BASE_UNITS THEN <<>>
    ELSE (IF d[a][1] = 0 THEN <<>>
          ELSE IF d[a] = <<1, 1>> THEN <<" ">> \o AxisSymbols[a]
          ELSE IF d[a][2] = 1 THEN <<" ">> \o AxisSymbols[a] \o <<"^">> \o FormatInt(d[a][1])
          ELSE <<" ">> \o AxisSymbols[a] \o <<"^">> \o FormatInt(d[a][1])
                  \o <<"/">> \o FormatInt(d[a][2]))
         \o AxisTexts(d, a + 1)

\* C17: a quantity whose dimension has no registered name is written as its
\* value followed, for each base axis of non-zero exponent in the order
\* length, mass, time, current, temperature, substance, luminous intensity,
\* by that axis's own symbol and exponent.
C17_GenericFormat ==
    (Formatted /\ RegisteredNames(lhs.dim) = {})
        => /\ res.kind = "text"
           /\ \E v \in FormatDouble(lhs.value) : text = v \o AxisTexts(lhs.dim, 1)

\* every exponent is zero
AllZero(d) == \A i \in Axes : d[i][1] = 0

\* "rad" is a name registered for the all-zero dimension vector
RadRegistered == <<"r", "a", "d">> \in RegisteredNames(Angle)

\* C18: "rad" is registered for the all-zero dimension vector, so every
\* quantity whose seven exponents are zero (an Angle, a SolidAngle, a
\* MassFraction, the quotient of two quantities of one dimension) is written
\* as its value followed by " rad", never as a plain number.
C18_DimensionlessIsRad ==
    /\ RadRegistered
    /\ (Formatted /\ AllZero(lhs.dim))
        => /\ res.kind = "text"
           /\ \E v \in FormatDouble(lhs.value) : text = v \o <<" ", "r", "a", "d">>

C18_Witness ==
    /\ Formatted
    /\ depth > 0
    /\ lhs = x
    /\ AllZero(x.dim)
    /\ x.value = One
    /\ text = <<"1", " ", "r", "a", "d">>

Parsed == op = "parse"

Succeeded == res.kind = "bool" /\ res.truth

Failed == res.kind = "bool" /\ ~res.truth

\* the words of the string passed to from_string
TextWords == Words(text, <<>>)

\* w is, in its entirety, a decimal literal: an optional sign, digits with
\* an optional point, and an optional exponent
IsNumberLiteral(w) ==
    LET p0 == IF Len(w) >= 1 /\ w[1] \in {"+", "-"} THEN 2 ELSE 1
        ni == DigitRun(w, p0)
        point == p0 + ni <= Len(w) /\ w[p0 + ni] = "."
        nf == IF point THEN DigitRun(w, p0 + ni + 1) ELSE 0
        pe == p0 + ni + (IF point THEN 1 + nf ELSE 0)
        pd == IF pe + 1 <= Len(w) /\ w[pe + 1] \in {"+", "-"} THEN pe + 2 ELSE pe + 1
    IN  /\ ni + nf > 0
        /\ \/ pe = Len(w) + 1
           \/ /\ pe <= Len(w) /\ w[pe] \in {"e", "E"}
              /\ DigitRun(w, pd) > 0
              /\ pd + DigitRun(w, pd) = Len(w) + 1

\* the unit names the library registers
RecognisedNames == {FundamentalUnit[i].Name : i \in DOMAIN FundamentalUnit}

\* C19: from_string succeeds if and only if the text splits on white space
\* into exactly two words, the first is in its entirety a number literal and
\* the second is exactly a recognised unit name; every other input fails.
C19_ParseAcceptsExactly ==
    Parsed
        => /\ Succeeded <=> /\ Len(TextWords) = 2
                            /\ IsNumberLiteral(TextWords[1])
                            /\ TextWords[2] \in RecognisedNames
           /\ Succeeded \/ Failed

\* C20: from_string("90 deg") succeeds; from_string("90degrees") and
\* from_string("abc m") fail.
C20_ParseDegrees ==
    /\ (Parsed /\ text = <<"9", "0", " ", "d", "e", "g">>) => Succeeded
    /\ (Parsed /\ text = <<"9", "0", "d", "e", "g", "r", "e", "e", "s">>) => Failed
    /\ (Parsed /\ text = <<"a", "b", "c", " ", "m">>) => Failed

\* an exception left from_string
Thrown == res.kind = "thrown"

\* C21: for every input string (empty, white space only, a wrong number of
\* words, a first word that is no number or is out of the range of a
\* double) from_string returns true or false and no exception leaves it.
C21_ParseNeverThrows == Parsed => (Succeeded \/ Failed) /\ ~Thrown

\* C22: when from_string succeeds the value it gives is the number the
\* first word spells, with no scale factor of the unit applied; and
\* from_string("1 km") succeeds and gives 1 (not 1000).
C22_ParseKeepsRawValue ==
    /\ (Parsed /\ Succeeded) => res.value = stod(TextWords[1]).value
    /\ (Parsed /\ text = <<"1", " ", "k", "m">>) => (Succeeded /\ res.value = One)

\* the names in from_string's list
ParserNames == {UNITS[i] : i \in DOMAIN UNITS}

\* the two sets of names are one
SameNames == RecognisedNames \subseteq ParserNames /\ ParserNames \subseteq RecognisedNames

\* C23: the unit names from_string recognises are exactly the names the
\* formatter can write: the name of every type with a fundamental unit is in
\* from_string's list, and every name in the list is the registered name of
\* some type.
C23_ParserNamesAreFormatterNames ==
    /\ SameNames
    /\ (Formatted /\ HasFundamentalUnit(lhs.dim)) => FundamentalUnitName(lhs.dim) \in ParserNames
    /\ (Parsed /\ Succeeded) => TextWords[2] \in RecognisedNames

C23_Witness ==
    /\ Parsed
    /\ Succeeded
    /\ TextWords[2] = FundamentalUnitName(Dim(1, 0, -2, 0, 0, 0, 0))
    /\ TextWords[2] = UNITS[NUM_UNITS]

\* a quantity was written to a stream and the text passed to from_string
WrittenParsed == op = "parse_written"

\* C24: from_string inverts operator<<: for every type with a fundamental
\* unit and every value v, from_string of the text written for the quantity
\* succeeds and gives v.
C24_ParseInvertsFormat ==
    (WrittenParsed /\ HasFundamentalUnit(lhs.dim)) => (Succeeded /\ res.value = lhs.value)

\* the round trip always succeeds; only the value may differ
WrittenTextParses ==
    (WrittenParsed /\ HasFundamentalUnit(lhs.dim)) => Succeeded

ConstantUsed == op = "unit"

\* the constant used is the one named
IsConstant(name) == UnitConstants[n].name = name

\* v is f times the value of the constant named
IsTimes(v, f, name) == IsFinite(v) /\ Rat(v) = RatMul(<<f, 1>>, Rat(Unit(name).value))

\* every constant is initialised from a number or from a constant defined
\* before it
DefinedFromEarlier ==
    \A i \in DOMAIN UnitConstants :
        \/ UnitConstants[i].of = ""
        \/ \E j \in 1 .. (i - 1) : UnitConstants[j].name = UnitConstants[i].of

\* C25: every unit constant stores a multiple of the base unit obtained
\* only from constants defined before it (none depends on itself), and the
\* values are consistent: kilometre = 1000 x metre, minute = 60 x second,
\* hour = 60 x minute = 3600 x second, day = 24 x hour.
C25_UnitsBuiltFromEarlierUnits ==
    /\ DefinedFromEarlier
    /\ ConstantUsed =>
        /\ res.kind = "quantity"
        /\ res.dim = UnitConstants[n].dim
        /\ IsConstant("kilometre") => IsTimes(res.value, 1000, "metre")
        /\ IsConstant("minute") => IsTimes(res.value, 60, "second")
        /\ IsConstant("hour") =>
            IsTimes(res.value, 60, "minute") /\ IsTimes(res.value, 3600, "second")
        /\ IsConstant("day") => IsTimes(res.value, 24, "hour")

C25_Witness ==
    /\ ConstantUsed
    /\ IsConstant("day")
    /\ res = QuantityRes(Time, Whole(86400))
    /\ Unit("second").value = One

\* no two specialisations of FundamentalUnit for one dimension differ in
\* the name
OneNamePerDimension ==
    \A i, j \in DOMAIN FundamentalUnit :
        SameDimension(FundamentalUnit[i].dim, FundamentalUnit[j].dim)
            => FundamentalUnit[i].Name = FundamentalUnit[j].Name

\* the dimensions several aliases of the library name: Angle and SolidAngle,
\* Frequency and Radioactivity, Energy and MomentOfForce, AbsorbedDose,
\* EquivalentDose and SpecificEnergy, Entropy and HeatCapacity
AliasedDims == {
    Dim(0, 0, 0, 0, 0, 0, 0), Dim(0, 0, -1, 0, 0, 0, 0), Dim(2, 1, -2, 0, 0, 0, 0),
    Dim(2, 0, -2, 0, 0, 0, 0), Dim(2, 1, -2, 0, -1, 0, 0) }

AliasesShareOneName == \A d \in AliasedDims : Cardinality(RegisteredNames(d)) = 1

\* C26: the registered names are a function of the dimension: no dimension
\* has two different names, the dimensions reached under several aliases
\* included.
C26_NameIsFunctionOfDimension ==
    /\ OneNamePerDimension
    /\ AliasesShareOneName
    /\ Formatted => Cardinality(RegisteredNames(lhs.dim)) <= 1

C26_Witness ==
    /\ Formatted
    /\ lhs.dim = Dim(2, 0, -2, 0, 0, 0, 0)
    /\ RegisteredNames(lhs.dim) = {<<"G", "y">>}
    /\ text = <<"1", " ", "G", "y">>

LiteralUsed == op = "literal"

\* C27: every literal is the scalar multiple of the unit constant of its
\* suffix: for every suffix with a unit constant (_km, _tonne, _min, _hr,
\* _hour, _bar, _atm, the base suffixes) and every number x, x<suffix> has
\* the dimension and the stored value of x * unit.
C27_LiteralIsScalarTimesUnit ==
    LiteralUsed
        => /\ res.kind = "quantity"
           /\ res.dim = lhs.dim
           /\ IsFinite(res.value)
           /\ Rat(res.value) = RatMul(Rat(k), Rat(lhs.value))

Joined == op = "joined"

\* the value of q after n additions of a one after the other
RECURSIVE AddedInTurn(_, _, _)
AddedInTurn(v, a, times) == IF times = 0 THEN v ELSE AddedInTurn(FAdd(v, a), a, times - 1)

\* C28: operations invoked by several threads on shared quantities without
\* synchronisation give the results of some sequential execution: after two
\* threads have each run q += a, q holds what two additions one after the
\* other leave (no update is lost).
C28_ThreadsAreSequential ==
    Joined => res.value = AddedInTurn(k, rhs.value, Cardinality(Threads))

\* the operators that take their operands by const reference or by value
PureOps ==
    {"add", "sub", "mul", "div", "eq", "ne", "le", "ge", "lt", "gt", "in",
     "mulk", "kmul", "divk", "kdiv", "sqrt", "pow"}

CompoundOps == {"plus_assign", "minus_assign"}

\* C29: the binary operators, the scalar operators, the comparisons, in(),
\* sqrt and pow leave the stored value of every operand as it was; only +=
\* and -= change a quantity, and they change the value of the left operand
\* only, never the right operand and never a dimension.
C29_OperandsUnchanged ==
    [][/\ op' \in PureOps => x' = x
       /\ (op' \in PureOps /\ depth > 0) => lhs' = x
       /\ x' # x => \/ op' \in CompoundOps
                    \/ op' = "none" /\ depth' = depth + 1
       /\ op' \in CompoundOps =>
            /\ lhs' = x
            /\ x'.dim = x.dim
            /\ rhs' = Quantity(x.dim, One)
            /\ x'.value = IF op' = "plus_assign" THEN FAdd(x.value, rhs'.value)
                          ELSE FSub(x.value, rhs'.value)]_vars

C29_Witness ==
    /\ op = "plus_assign"
    /\ depth > 0
    /\ lhs = Quantity(Length, One)
    /\ rhs = Quantity(Length, One)
    /\ x = Quantity(Length, Fin(<<2, 1>>))

\* the text has two words and std::stod converts the first
NumberParsed == Len(TextWords) = 2 /\ stod(TextWords[1]).status = "ok"

\* C30: from_string writes *value exactly when the text has two words and
\* the first converts to a number, whether or not the unit is recognised:
\* after a wrong word count or a number that does not convert, *value is
\* what it was (k); after an unrecognised unit, from_string returns false
\* with *value already the number.
C30_OutputWrittenBeforeUnitCheck ==
    Parsed
        => /\ ~NumberParsed => (res.value = k /\ ~Succeeded)
           /\ NumberParsed => res.value = stod(TextWords[1]).value
           /\ (NumberParsed /\ TextWords[2] \notin RecognisedNames) => Failed

C30_Witness ==
    /\ Parsed
    /\ text = <<"1", " ", "k", "m">>
    /\ k = Zero
    /\ Failed
    /\ res.value = One

=============================================================================
